---- MODULE Spec2Model ----
(***************************************************************************)
(* A model of utils/services/proxy_manager.py: the proxy masker, the       *)
(* token/proxy assigner, the retrying fetcher and the IP resolver.         *)
(*                                                                         *)
(* Python strings are sequences of one-character strings, so that parsing, *)
(* stripping, lower-casing and formatting are computed, not assumed.       *)
(* Optional[T] is a sequence of length 0 (None) or 1 (the value).          *)
(***************************************************************************)
EXTENDS Integers, Sequences, FiniteSets, Bags, TLC

VARIABLES
    op,             \* which entry point the environment called
    tokens,         \* assign_proxies: argument tokens
    proxies,        \* assign_proxies: argument proxies (Optional list)
    assigned,       \* assign_proxies: Optional return value
    maskIn,         \* _mask_proxy: argument proxy
    maskOut,        \* _mask_proxy: Optional return value
    HAS_AIOHTTP_SOCKS, \* module flag _HAS_AIOHTTP_SOCKS, set at import
    account,        \* resolve_ip_for_account: argument account
    given,          \* get_ip_address: the argument proxy as passed
    proxy,          \* get_ip_address: local proxy (Optional string)
    proxy_ip,       \* get_ip_address: local proxy_ip
    strategy,       \* how the session and its GETs are configured
    session,        \* "none", "open" or "closed": the aiohttp.ClientSession
    attempts,       \* _fetch_with_retries: local attempts
    backoff,        \* _fetch_with_retries: local backoff
    attempt,        \* _fetch_with_retries: loop variable attempt
    last_exc,       \* _fetch_with_retries: local last_exc ("" is None)
    resp,           \* the response the fetch returned (Optional)
    body,           \* the body resp.json() produced (Optional)
    pc,             \* where the coroutine is suspended
    gets,           \* history: the GET requests issued, in order
    waits,          \* history: the asyncio.sleep durations, in order
    log,            \* the logging sink: the records written, in order
    outcome,        \* "pending", "returned" or "raised"
    retval,         \* the value returned to the caller
    exc,            \* the exception raised to the caller ("" when none)
    running,        \* the event loop: the task that runs (0: no task set)
    frames,         \* the event loop: the frames of the suspended tasks
    cancelled       \* the await at which the call was cancelled ("" if not)

vars == <<op, tokens, proxies, assigned, maskIn, maskOut, HAS_AIOHTTP_SOCKS,
          account, given, proxy, proxy_ip, strategy, session, attempts, backoff,
          attempt, last_exc, resp, body, pc, gets, waits, log, outcome,
          retval, exc, running, frames, cancelled>>

assignVars == <<tokens, proxies, assigned>>
maskVars == <<maskIn, maskOut>>
resolveVars == <<HAS_AIOHTTP_SOCKS, account, given, proxy, proxy_ip, strategy,
                 session, attempts, backoff, attempt, last_exc, resp, body,
                 pc, gets, waits, log, outcome, retval, exc>>
loopVars == <<running, frames>>
cancelVars == <<cancelled>>

(***************************************************************************)
(* Optional values.                                                        *)
(***************************************************************************)
None == <<>>
Some(x) == <<x>>
IsNone(o) == Len(o) = 0
Get(o) == o[1]

(***************************************************************************)
(* Characters and str methods.                                             *)
(***************************************************************************)
UpperChars == <<"A","B","C","D","E","F","G","H","I","J","K","L","M",
                "N","O","P","Q","R","S","T","U","V","W","X","Y","Z">>
LowerChars == <<"a","b","c","d","e","f","g","h","i","j","k","l","m",
                "n","o","p","q","r","s","t","u","v","w","x","y","z">>
DigitChars == <<"0","1","2","3","4","5","6","7","8","9">>

Range(s) == {s[i] : i \in DOMAIN s}
IsUpper(c) == c \in Range(UpperChars)
IsAlpha(c) == c \in Range(UpperChars) \cup Range(LowerChars)
IsDigit(c) == c \in Range(DigitChars)
IsSpace(c) == c \in {" ", "\t", "\n", "\r"}
\* urllib.parse.scheme_chars
IsSchemeChar(c) == IsAlpha(c) \/ IsDigit(c) \/ c \in {"+", "-", "."}

\* str.lower on one character and on a string
LowerChar(c) ==
    IF IsUpper(c)
    THEN LowerChars[CHOOSE i \in DOMAIN UpperChars : UpperChars[i] = c]
    ELSE c
Lower(s) == [i \in DOMAIN s |-> LowerChar(s[i])]

\* s[a:b] with 0-based Python bounds already clipped to 0..Len(s)
Slice(s, a, b) == IF b <= a THEN <<>> ELSE SubSeq(s, a + 1, b)

\* str.find(c): 0-based index of the first c, or -1
Find(s, c) ==
    IF \E i \in DOMAIN s : s[i] = c
    THEN (CHOOSE i \in DOMAIN s : s[i] = c /\ \A j \in 1..(i-1) : s[j] # c) - 1
    ELSE -1

\* str.rfind(c): 0-based index of the last c, or -1
RFind(s, c) ==
    IF \E i \in DOMAIN s : s[i] = c
    THEN (CHOOSE i \in DOMAIN s : s[i] = c /\ \A j \in (i+1)..Len(s) : s[j] # c) - 1
    ELSE -1

\* str.partition(c) and str.rpartition(c): <<head, found, tail>>
PartitionAt(s, i) ==
    IF i < 0 THEN <<s, FALSE, <<>>>>
    ELSE <<Slice(s, 0, i), TRUE, Slice(s, i + 1, Len(s))>>
RPartitionAt(s, i) ==
    IF i < 0 THEN <<<<>>, FALSE, s>>
    ELSE <<Slice(s, 0, i), TRUE, Slice(s, i + 1, Len(s))>>
Partition(s, c) == PartitionAt(s, Find(s, c))
RPartition(s, c) == RPartitionAt(s, RFind(s, c))

\* str.lstrip(), str.strip() of whitespace
LStrip(s) ==
    IF \A i \in DOMAIN s : IsSpace(s[i]) THEN <<>>
    ELSE Slice(s, (CHOOSE i \in DOMAIN s :
                      ~IsSpace(s[i]) /\ \A j \in 1..(i-1) : IsSpace(s[j])) - 1,
               Len(s))
RStrip(s) ==
    IF \A i \in DOMAIN s : IsSpace(s[i]) THEN <<>>
    ELSE Slice(s, 0, CHOOSE i \in DOMAIN s :
                      ~IsSpace(s[i]) /\ \A j \in (i+1)..Len(s) : IsSpace(s[j]))
Strip(s) == LStrip(RStrip(s))

\* str.startswith(p)
StartsWith(s, p) == Len(s) >= Len(p) /\ SubSeq(s, 1, Len(p)) = p

\* p occurs in s as a contiguous substring (p in s)
Contains(s, p) ==
    \E i \in 0..(Len(s) - Len(p)) : SubSeq(s, i + 1, i + Len(p)) = p

\* int(s) of a string of decimal digits
RECURSIVE IntOf(_)
IntOf(s) ==
    IF s = <<>> THEN 0
    ELSE 10 * IntOf(SubSeq(s, 1, Len(s) - 1))
         + (CHOOSE i \in DOMAIN DigitChars : DigitChars[i] = s[Len(s)]) - 1

\* str(n) of a natural number (f"{n}")
RECURSIVE StrOf(_)
StrOf(n) ==
    IF n < 10 THEN <<DigitChars[n + 1]>>
    ELSE StrOf(n \div 10) \o <<DigitChars[(n % 10) + 1]>>

(***************************************************************************)
(* urllib.parse.urlparse, as far as the program reads its result: scheme,  *)
(* netloc and the hostname, port, username and password properties. The    *)
(* properties are fields of the parsed record; a property that raises      *)
(* ValueError when read is a field whose "raises" is TRUE.                 *)
(***************************************************************************)
\* Python truth of an Optional string, and "x or ''"
Truthy(o) == ~IsNone(o) /\ Get(o) # <<>>
OrEmpty(o) == IF Truthy(o) THEN Get(o) ELSE <<>>

\* _hostinfo: host text and port text of "host:port" or "[host]:port"
host_text(hi) ==
    IF "[" \in Range(hi)
    THEN Partition(Partition(hi, "[")[3], "]")[1]
    ELSE Partition(hi, ":")[1]
port_text(hi) ==
    IF "[" \in Range(hi)
    THEN Partition(Partition(Partition(hi, "[")[3], "]")[3], ":")[3]
    ELSE Partition(hi, ":")[3]

\* .hostname: lower-cased, None when empty
hostname_of(h) == IF h = <<>> THEN None ELSE Some(Lower(h))

\* .port: None when there is no port text; raises ValueError when the text
\* is not all digits or the number is outside 0..65535
port_of(t) ==
    IF t = <<>> THEN [raises |-> FALSE, value |-> None]
    ELSE IF \E k \in DOMAIN t : ~IsDigit(t[k])
         THEN [raises |-> TRUE, value |-> None]
         ELSE IF IntOf(t) > 65535
              THEN [raises |-> TRUE, value |-> None]
              ELSE [raises |-> FALSE, value |-> Some(IntOf(t))]

\* _userinfo: at is netloc.rpartition("@"), up is userinfo.partition(":")
username_of(at, up) == IF at[2] THEN Some(up[1]) ELSE None
password_of(at, up) == IF at[2] /\ up[2] THEN Some(up[3]) ELSE None

\* The parsed result; urlsplit raises ValueError("Invalid IPv6 URL") when
\* only one of "[" and "]" is in the netloc
parsed_at(scheme, netloc, at) ==
    [raises |-> ("[" \in Range(netloc)) # ("]" \in Range(netloc)),
     scheme |-> scheme,
     netloc |-> netloc,
     hostname |-> hostname_of(host_text(at[3])),
     port |-> port_of(port_text(at[3])),
     username |-> username_of(at, Partition(at[1], ":")),
     password |-> password_of(at, Partition(at[1], ":"))]
parsed_of(scheme, netloc) == parsed_at(scheme, netloc, RPartition(netloc, "@"))

\* _splitnetloc: the netloc follows "//" and ends before the first "/",
\* "?" or "#"
netloc_end(url) ==
    IF \E k \in 3..Len(url) : url[k] \in {"/", "?", "#"}
    THEN (CHOOSE k \in 3..Len(url) :
             /\ url[k] \in {"/", "?", "#"}
             /\ \A m \in 3..(k-1) : url[m] \notin {"/", "?", "#"}) - 1
    ELSE Len(url)
split_netloc(scheme, url) ==
    IF Len(url) >= 2 /\ url[1] = "/" /\ url[2] = "/"
    THEN parsed_of(scheme, Slice(url, 2, netloc_end(url)))
    ELSE parsed_of(scheme, <<>>)

\* urlsplit: the scheme is the text before the first ":" (at 0-based i) when
\* it starts with a letter and holds only scheme characters
split_scheme(url, i) ==
    IF i > 0 /\ IsAlpha(url[1]) /\ \A k \in 1..i : IsSchemeChar(url[k])
    THEN split_netloc(Lower(Slice(url, 0, i)), Slice(url, i + 1, Len(url)))
    ELSE split_netloc(<<>>, url)
urlsplit(url) == split_scheme(url, Find(url, ":"))
urlparse(raw) == urlsplit(LStrip(raw))

(***************************************************************************)
(* String literals of the program and the inputs of the model.             *)
(***************************************************************************)
Unknown == <<"U","n","k","n","o","w","n">>
S_unknown == <<"u","n","k","n","o","w","n">>
S_masked_proxy == <<"m","a","s","k","e","d","-","p","r","o","x","y">>
S_stars_at == <<"*","*","*","@">>
S_socks == <<"s","o","c","k","s">>
S_http == <<"h","t","t","p">>

\* The proxy strings of the model: prefix, user information, host and port
\* are chosen independently, then a few strings of other shapes are added.
PrefixParts ==
    { <<>>,
      <<"/","/">>,
      <<"h","t","t","p",":">>,
      <<"h","t","t","p",":","/","/">>,
      <<"H","T","T","P",":","/","/">>,
      <<"h","t","t","p","s",":","/","/">>,
      <<"s","o","c","k","s","5",":","/","/">>,
      <<"S","O","C","K","S","5",":","/","/">>,
      <<"s","o","c","k","s","4",":","/","/">>,
      <<"f","t","p",":","/","/">> }
UserParts ==
    { <<>>,
      <<"u","s","e","r","@">>,
      <<"u","s","e","r",":","p","w","@">>,
      <<":","p","w","@">> }
HostParts == { <<>>, <<"h","1">>, <<"H","2">> }
PortParts ==
    { <<>>,
      <<":","0">>,
      <<":","8","0">>,
      <<":","0","8","0">>,
      <<":","x","1">>,
      <<":","6","5","5","3","5">>,
      <<":","6","5","5","3","6">> }
OtherStrings ==
    { <<"n","o","t","-","a","-","p","r","o","x","y">>,
      <<" "," ">>,
      <<" ","h","t","t","p",":","/","/","h","1",":","8","0"," ">>,
      <<"h","t","t","p",":","/","/","h","1",":","8","0","/","x">>,
      <<"h","t","t","p",":","/","/","[",":",":","1">>,
      <<"h","t","t","p",":","/","/","u","s","e","r",":","p","w","@",
        "1","0",".","0",".","0",".","1",":","8","0","8","0">> }
ProxyStrings ==
    { a \o b \o c \o d :
        a \in PrefixParts, b \in UserParts, c \in HostParts, d \in PortParts }
    \cup OtherStrings

\* The password a proxy string was written with ("" when it has none)
PasswordOf(s) == IF Contains(s, <<":","p","w","@">>) THEN <<"p","w">> ELSE <<>>

(***************************************************************************)
(* _mask_proxy                                                             *)
(***************************************************************************)
\* f"{port}" of "p.port or ''"
port_display(pt) ==
    IF ~IsNone(pt.value) /\ Get(pt.value) # 0 THEN StrOf(Get(pt.value)) ELSE <<>>
\* "p.hostname or 'unknown'"
host_display(h) == IF Truthy(h) THEN Get(h) ELSE S_unknown

\* A faulty variant: the user information is shown as written
mask_parsed_leak(p) ==
    IF p.raises \/ p.port.raises THEN S_masked_proxy
    ELSE RPartition(p.netloc, "@")[1] \o <<"@">>
             \o host_display(p.hostname) \o <<":">> \o port_display(p.port)

\* The body of the try block, on the parsed proxy; "masked-proxy" when
\* urlparse or p.port raises
mask_parsed(p) ==
    IF p.raises \/ p.port.raises THEN S_masked_proxy
    ELSE IF OrEmpty(p.username) # <<>>
         THEN SubSeq(OrEmpty(p.username), 1, 1) \o S_stars_at
                  \o host_display(p.hostname) \o <<":">> \o port_display(p.port)
         ELSE host_display(p.hostname) \o <<":">> \o port_display(p.port)
_mask_proxy(raw) == mask_parsed(urlparse(raw))

(***************************************************************************)
(* assign_proxies                                                          *)
(***************************************************************************)
Min(a, b) == IF a <= b THEN a ELSE b

\* zip(xs, ys): pairs up to the shorter of the two
Zip(xs, ys) == [i \in 1..Min(Len(xs), Len(ys)) |-> <<xs[i], Some(ys[i])>>]

\* A faulty variant: when the proxies run out they are used again from the
\* first one
assign_list_cycle(ts, plist) ==
    [i \in 1..Len(ts) |->
        <<ts[i], IF plist = <<>> THEN None
                 ELSE Some(plist[((i - 1) % Len(plist)) + 1])>>]
\* A faulty variant: the tokens are paired with the last proxies of the
\* list, not the first
assign_list_last(ts, plist) ==
    [i \in 1..Len(ts) |->
        <<ts[i], IF i <= Len(plist)
                 THEN Some(plist[Len(plist) - Min(Len(plist), Len(ts)) + i])
                 ELSE None>>]

\* tokens[:k] and tokens[k:] clip k to the length of tokens
assign_list(ts, plist) ==
    Zip(Slice(ts, 0, Min(Len(plist), Len(ts))), plist)
    \o [i \in 1..(Len(ts) - Min(Len(plist), Len(ts))) |->
           <<ts[Min(Len(plist), Len(ts)) + i], None>>]
assign_proxies(ts, ps) == assign_list(ts, IF IsNone(ps) THEN <<>> ELSE Get(ps))

(***************************************************************************)
(* The environment of a resolution: exceptions, the IP-echo endpoint.      *)
(***************************************************************************)
\* What session.get can raise: aiohttp.ClientError and asyncio.TimeoutError
TransportErrors == {"ClientError", "TimeoutError"}
\* asyncio.CancelledError: raised at the await where a cancelled task is
\* suspended; it derives from BaseException, not from Exception
CancelledError == "CancelledError"
\* The classes below all derive from Exception
ExceptionClasses == TransportErrors \cup
                    {"ValueError", "ContentTypeError", "AttributeError"}

\* The statuses the endpoint (or a proxy in front of it) may answer with
Statuses == {200, 204, 500}
\* The addresses the endpoint may report
EndpointIps == { <<"1",".","2",".","3",".","4">>, <<"5",".","6",".","7",".","8">> }
\* What resp.json() may find: a JSON object with or without "ip", a JSON
\* value that is no object, or a body that is no JSON at all
Bodies == { [kind |-> "object", ip |-> Some(a)] : a \in EndpointIps }
          \cup { [kind |-> "object", ip |-> None],
                 [kind |-> "array", ip |-> None],
                 [kind |-> "not_json", ip |-> None] }

\* How a session and its GETs are configured
NoStrategy == [kind |-> "none", endpoint |-> <<>>, auth |-> None]
Direct == [kind |-> "Direct", endpoint |-> <<>>, auth |-> None]

\* Log records: level, message, interpolated text, exception class
LogRec(level, msg, text, e) ==
    [level |-> level, msg |-> msg, text |-> text, exc |-> e]

\* The account objects of the model: attribute proxy is missing, None, a
\* non-string or a string
NoAccount == [kind |-> "none", proxy |-> <<>>]
Accounts == { [kind |-> k, proxy |-> <<>>] : k \in {"absent", "None", "int"} }
            \cup { [kind |-> "str", proxy |-> s] : s \in ProxyStrings }

(***************************************************************************)
(* The exception handlers and the ways a call ends.                        *)
(***************************************************************************)
\* A faulty variant: only the errors of the transport are caught
get_ip_address_catches_transport(e) == e \in TransportErrors

\* "except Exception" of get_ip_address and of resolve_ip_for_account
get_ip_address_catches(e) == e \in ExceptionClasses
resolve_ip_for_account_catches(e) == e \in ExceptionClasses

End(o, v, e, lg) == [outcome |-> o, retval |-> v, exc |-> e, log |-> lg]

\* resolve_ip_for_account: "return await get_ip_address(...)" and its handler
resolve_ip_for_account_return(v, lg) == End("returned", v, "", lg)
resolve_ip_for_account_except(e, lg) ==
    IF resolve_ip_for_account_catches(e)
    THEN End("returned", Unknown, "",
             Append(lg, LogRec("error", "failed_to_resolve", <<>>, e)))
    ELSE End("raised", <<>>, e, lg)

\* get_ip_address returns v, or raises e, to whoever called it
get_ip_address_return(v, lg) ==
    IF op = "resolve_ip_for_account"
    THEN resolve_ip_for_account_return(v, lg)
    ELSE End("returned", v, "", lg)
get_ip_address_raise(e, lg) ==
    IF op = "resolve_ip_for_account"
    THEN resolve_ip_for_account_except(e, lg)
    ELSE End("raised", <<>>, e, lg)

\* get_ip_address: an exception e reaches the handler; pip is proxy_ip
get_ip_address_except(e, pip, lg) ==
    IF get_ip_address_catches(e)
    THEN get_ip_address_return(
             pip, Append(lg, LogRec("error", "request_failed", pip, e)))
    ELSE get_ip_address_raise(e, lg)

\* A faulty variant: the session is closed by hand before each return, and
\* stays open when the block is left by an exception
async_with_exit_on_return(how) == IF how = "return" THEN "closed" ELSE "open"

\* "async with aiohttp.ClientSession(...) as session": the session is closed
\* however the block is left, by return or by an exception
async_with_exit(how) == "closed"

\* A faulty variant: every 2xx status is read as a success
status_ok_2xx(st) == st \in 200..299

\* "if resp.status == 200"
status_ok(st) == st = 200

\* get_ip_address: the fetch returned a response whose status is not 200
get_ip_address_status(st, lg) ==
    get_ip_address_return(
        Unknown, Append(lg, LogRec("warning", "returned_status", StrOf(st), "")))

\* get_ip_address: resp.json() produced b; data.get("ip", "Unknown")
get_ip_address_json(b, pip, lg) ==
    IF b.kind = "not_json" THEN get_ip_address_except("ContentTypeError", pip, lg)
    ELSE IF b.kind # "object" THEN get_ip_address_except("AttributeError", pip, lg)
    ELSE get_ip_address_return(IF IsNone(b.ip) THEN Unknown ELSE Get(b.ip), lg)

\* The call ends with r
Finish(r) ==
    /\ outcome' = r.outcome
    /\ retval' = r.retval
    /\ exc' = r.exc
    /\ log' = r.log
    /\ pc' = "done"

(***************************************************************************)
(* _fetch_with_retries                                                     *)
(***************************************************************************)
DefaultAttempts == 3
DefaultBackoff == 1

\* A faulty variant: the same delay after every attempt
fetch_delay_constant(b, n) == b

\* A faulty variant: a wait and a further attempt follow the last attempt too
fetch_retries_always(n, total) == n <= total

\* "if attempt < attempts" and "asyncio.sleep(backoff * attempt)"
fetch_retries(n, total) == n < total
fetch_delay(b, n) == b * n

\* The call: attempts and backoff are popped from kwargs, last_exc is None,
\* and the first session.get is issued with the remaining kwargs
fetch_begin(total, b, strat) ==
    /\ attempts' = total
    /\ backoff' = b
    /\ attempt' = 1
    /\ last_exc' = ""
    /\ gets' = Append(gets, strat)
    /\ pc' = "get"

(***************************************************************************)
(* get_ip_address, from the call to its first await.                       *)
(***************************************************************************)
\* "not parsed.scheme or not parsed.hostname or not parsed.port", evaluated
\* left to right: "raises" when urlparse or .port raises ValueError
validate(parsed) ==
    IF parsed.raises THEN "raises"
    ELSE IF parsed.scheme = <<>> THEN "invalid"
    ELSE IF ~Truthy(parsed.hostname) THEN "invalid"
    ELSE IF parsed.port.raises THEN "raises"
    ELSE IF IsNone(parsed.port.value) \/ Get(parsed.port.value) = 0
         THEN "invalid"
    ELSE "valid"

\* proxy_ip once the proxy is accepted
accepted_proxy_ip(parsed) == Get(parsed.hostname)

\* urlunparse((scheme, netloc, "", "", "", ""))
urlunparse(scheme, netloc) ==
    (IF scheme # <<>> THEN scheme \o <<":">> ELSE <<>>)
    \o (IF netloc # <<>> THEN <<"/","/">> \o netloc ELSE <<>>)

\* scheme.startswith("socks")
is_socks(parsed) == StartsWith(Lower(parsed.scheme), S_socks)

\* The strategy of a valid proxy: a SOCKS connector on the whole URL, or
\* proxy=scheme://host:port with proxy_auth=BasicAuth(user or "", pw or "")
socks_strategy(text) ==
    [kind |-> "SocksTunnel", endpoint |-> text, auth |-> None]
\* A faulty variant: the proxy URL is handed on with its credentials
forward_strategy_whole_url(parsed) ==
    [kind |-> "ForwardProxy",
     endpoint |-> urlunparse(parsed.scheme, parsed.netloc),
     auth |-> IF Truthy(parsed.username) \/ Truthy(parsed.password)
              THEN Some(<<OrEmpty(parsed.username), OrEmpty(parsed.password)>>)
              ELSE None]
forward_strategy(parsed) ==
    [kind |-> "ForwardProxy",
     endpoint |-> urlunparse(parsed.scheme,
                             Get(parsed.hostname) \o <<":">>
                                 \o StrOf(Get(parsed.port.value))),
     auth |-> IF Truthy(parsed.username) \/ Truthy(parsed.password)
              THEN Some(<<OrEmpty(parsed.username), OrEmpty(parsed.password)>>)
              ELSE None]
select_strategy(verdict, text, parsed) ==
    IF verdict # "valid" THEN Direct
    ELSE IF is_socks(parsed) THEN socks_strategy(text)
    ELSE forward_strategy(parsed)

\* What the SOCKS branch returns when aiohttp_socks is missing
socks_unavailable_value(pip) == pip

\* The local proxy after the cleaning block
cleaned_proxy(arg, verdict, text) ==
    IF verdict = "none" THEN arg
    ELSE IF verdict = "invalid" THEN None
    ELSE Some(text)

\* From "url = ..." on: the proxy is cleaned, proxy_ip is pip, the log is lg
get_ip_address_run(verdict, pip, strat, lg) ==
    /\ proxy_ip' = pip
    /\ resp' = None
    /\ body' = None
    /\ waits' = waits
    /\ IF verdict = "raises"
       THEN /\ Finish(get_ip_address_except("ValueError", pip, lg))
            /\ UNCHANGED <<strategy, session, attempts, backoff, attempt,
                           last_exc, gets>>
       ELSE IF strat.kind = "SocksTunnel" /\ ~HAS_AIOHTTP_SOCKS
       THEN /\ Finish(get_ip_address_return(
                  socks_unavailable_value(pip),
                  Append(lg, LogRec("error", "socks_not_installed", <<>>, ""))))
            /\ UNCHANGED <<strategy, session, attempts, backoff, attempt,
                           last_exc, gets>>
       ELSE /\ strategy' = strat
            /\ session' = "open"
            /\ fetch_begin(DefaultAttempts, DefaultBackoff, strat)
            /\ UNCHANGED <<outcome, retval, exc>>
            /\ log' = lg

\* The cleaning block: text is proxy.strip(), parsed is urlparse(text)
get_ip_address_checked(arg, lg, text, parsed, verdict) ==
    /\ given' = arg
    /\ proxy' = cleaned_proxy(arg, verdict, text)
    /\ get_ip_address_run(
           verdict,
           IF verdict = "valid" THEN accepted_proxy_ip(parsed) ELSE Unknown,
           select_strategy(verdict, text, parsed),
           IF verdict = "invalid"
           THEN Append(lg, LogRec("warning", "invalid_proxy", text, ""))
           ELSE lg)
get_ip_address_parsed(arg, lg, text, parsed) ==
    get_ip_address_checked(arg, lg, text, parsed,
                           IF Truthy(arg) THEN validate(parsed) ELSE "none")
get_ip_address_clean(arg, lg, text) ==
    get_ip_address_parsed(arg, lg, text, urlparse(text))

\* get_ip_address(arg) called with the log at lg
get_ip_address(arg, lg) ==
    get_ip_address_clean(arg, lg, IF Truthy(arg) THEN Strip(Get(arg)) ELSE <<>>)

(***************************************************************************)
(* Initial states.                                                         *)
(***************************************************************************)
MaxTokens == 3
MaxProxies == 3
MaxAttempts == 4
MaxBackoff == 3

TokenValues == {"t1", "t2"}
ProxyValues == {"p1", "p2"}
BoundedSeq(S, n) == UNION { [1..k -> S] : k \in 0..n }

IdleAssign == tokens = <<>> /\ proxies = None /\ assigned = None
NoLoop == running = 0 /\ frames = <<>> /\ cancelled = ""
IdleMask == maskIn = <<>> /\ maskOut = None
NotCalled ==
    /\ proxy_ip = <<>>
    /\ attempt = 0
    /\ last_exc = ""
    /\ resp = None
    /\ body = None
    /\ pc = "start"
    /\ gets = <<>>
    /\ waits = <<>>
    /\ log = <<>>
    /\ outcome = "pending"
    /\ retval = <<>>
    /\ exc = ""
IdleResolve ==
    /\ NotCalled
    /\ session = "none"
    /\ HAS_AIOHTTP_SOCKS = FALSE
    /\ account = NoAccount
    /\ given = None
    /\ proxy = None
    /\ strategy = NoStrategy
    /\ attempts = 0
    /\ backoff = 0

\* get_ip_address(proxy) or resolve_ip_for_account(account) is about to run
Init ==
    /\ NoLoop
    /\ IdleAssign
    /\ IdleMask
    /\ NotCalled
    /\ session = "none"
    /\ HAS_AIOHTTP_SOCKS \in BOOLEAN
    /\ proxy = None
    /\ strategy = NoStrategy
    /\ attempts = 0
    /\ backoff = 0
    /\ op \in {"get_ip_address", "resolve_ip_for_account"}
    /\ IF op = "get_ip_address"
       THEN /\ account = NoAccount
            /\ given \in {None} \cup {Some(s) : s \in ProxyStrings}
       ELSE /\ account \in Accounts
            /\ given = None

\* _fetch_with_retries(session, url, _attempts=attempts, _backoff=backoff)
\* is about to run on an open session
InitFetch ==
    /\ NoLoop
    /\ IdleAssign
    /\ IdleMask
    /\ NotCalled
    /\ session = "open"
    /\ op = "_fetch_with_retries"
    /\ HAS_AIOHTTP_SOCKS = FALSE
    /\ account = NoAccount
    /\ given = None
    /\ proxy = None
    /\ strategy = Direct
    /\ attempts \in 1..MaxAttempts
    /\ backoff \in 1..MaxBackoff

InitMask ==
    /\ NoLoop
    /\ IdleAssign
    /\ IdleResolve
    /\ op = "_mask_proxy"
    /\ maskIn \in ProxyStrings
    /\ maskOut = None

InitAssign ==
    /\ NoLoop
    /\ IdleMask
    /\ IdleResolve
    /\ op = "assign_proxies"
    /\ tokens \in BoundedSeq(TokenValues, MaxTokens)
    /\ proxies \in {None} \cup {Some(ps) : ps \in BoundedSeq(ProxyValues, MaxProxies)}
    /\ assigned = None

(***************************************************************************)
(* Actions.                                                                *)
(***************************************************************************)
AssignProxies ==
    /\ op = "assign_proxies"
    /\ IsNone(assigned)
    /\ assigned' = Some(assign_proxies(tokens, proxies))
    /\ UNCHANGED <<op, tokens, proxies, maskVars, resolveVars, loopVars, cancelVars>>

MaskProxy ==
    /\ op = "_mask_proxy"
    /\ IsNone(maskOut)
    /\ maskOut' = Some(_mask_proxy(maskIn))
    /\ UNCHANGED <<op, maskIn, assignVars, resolveVars, loopVars, cancelVars>>

\* The environment calls get_ip_address(proxy)
CallGetIpAddress ==
    /\ op = "get_ip_address"
    /\ pc = "start"
    /\ get_ip_address(given, log)
    /\ UNCHANGED <<op, assignVars, maskVars, loopVars, cancelVars, HAS_AIOHTTP_SOCKS, account>>

\* A faulty variant: the prefix is compared without regard to case
account_routes_any_case(a) ==
    /\ a.kind = "str"
    /\ a.proxy # <<>>
    /\ (StartsWith(Lower(a.proxy), S_http) \/ StartsWith(Lower(a.proxy), S_socks))

\* acct_proxy and isinstance(acct_proxy, str)
\* and acct_proxy.startswith(("http", "socks"))
account_routes(a) ==
    /\ a.kind = "str"
    /\ a.proxy # <<>>
    /\ (StartsWith(a.proxy, S_http) \/ StartsWith(a.proxy, S_socks))

\* The environment calls resolve_ip_for_account(account)
CallResolve ==
    /\ op = "resolve_ip_for_account"
    /\ pc = "start"
    /\ get_ip_address(IF account_routes(account) THEN Some(account.proxy) ELSE None,
                      log)
    /\ UNCHANGED <<op, assignVars, maskVars, loopVars, cancelVars, HAS_AIOHTTP_SOCKS, account>>

\* The environment calls _fetch_with_retries
CallFetch ==
    /\ op = "_fetch_with_retries"
    /\ pc = "start"
    /\ fetch_begin(attempts, backoff, strategy)
    /\ UNCHANGED <<op, assignVars, maskVars, loopVars, cancelVars, HAS_AIOHTTP_SOCKS, account, given, proxy,
                   proxy_ip, strategy, session, resp, body, waits, log,
                   outcome, retval, exc>>

\* "await session.get" ends with a response: the fetch returns it, and
\* get_ip_address goes on to read the body (200) or returns "Unknown"
GetResponds ==
    /\ pc = "get"
    /\ \E st \in Statuses :
        /\ resp' = Some([status |-> st])
        /\ IF op = "_fetch_with_retries"
           THEN /\ Finish(End("returned", <<>>, "", log))
                /\ UNCHANGED session
           ELSE IF status_ok(st)
           THEN /\ pc' = "json"
                /\ UNCHANGED <<session, outcome, retval, exc, log>>
           ELSE /\ session' = async_with_exit("return")
                /\ Finish(get_ip_address_status(st, log))
    /\ UNCHANGED <<op, assignVars, maskVars, loopVars, cancelVars, HAS_AIOHTTP_SOCKS, account, given, proxy,
                   proxy_ip, strategy, attempts, backoff, attempt, last_exc,
                   body, gets, waits>>

\* A faulty variant: "except BaseException", which catches cancellation too
fetch_catches_base(e) == TRUE

\* "except Exception as e" of _fetch_with_retries
fetch_catches(e) == e \in ExceptionClasses

\* An exception e leaves _fetch_with_retries with the log at lg: to the
\* caller of the fetch, or through "async with" into get_ip_address
fetch_raise(e, lg) ==
    IF op = "_fetch_with_retries"
    THEN /\ Finish(End("raised", <<>>, e, lg))
         /\ UNCHANGED session
    ELSE /\ session' = async_with_exit("raise")
         /\ Finish(get_ip_address_except(e, proxy_ip, lg))

\* "await session.get" raises e: if the handler catches it the attempt is
\* logged, and the fetch sleeps and goes on, or raises last_exc after the
\* last attempt; if not, e leaves the fetch at once
get_raises(e, lg) ==
    IF fetch_catches(e)
    THEN /\ last_exc' = e
         /\ IF fetch_retries(attempt, attempts)
            THEN /\ waits' = Append(waits, fetch_delay(backoff, attempt))
                 /\ pc' = "sleep"
                 /\ log' = lg
                 /\ UNCHANGED <<session, outcome, retval, exc>>
            ELSE /\ waits' = waits
                 /\ fetch_raise(e, lg)
    ELSE /\ fetch_raise(e, log)
         /\ UNCHANGED <<last_exc, waits>>

GetFails ==
    /\ pc = "get"
    /\ \E e \in TransportErrors :
        get_raises(e, Append(log, LogRec("warning", "attempt_failed",
                                         StrOf(attempt), e)))
    /\ UNCHANGED <<op, assignVars, maskVars, loopVars, cancelVars, HAS_AIOHTTP_SOCKS, account, given, proxy,
                   proxy_ip, strategy, attempts, backoff, attempt, resp, body,
                   gets>>

\* "await asyncio.sleep" ends: the next attempt issues its GET
SleepDone ==
    /\ pc = "sleep"
    /\ attempt' = attempt + 1
    /\ gets' = Append(gets, strategy)
    /\ pc' = "get"
    /\ UNCHANGED <<op, assignVars, maskVars, loopVars, cancelVars, HAS_AIOHTTP_SOCKS, account, given, proxy,
                   proxy_ip, strategy, session, attempts, backoff, last_exc,
                   resp, body, waits, log, outcome, retval, exc>>

\* "await resp.json()" ends, the session is left, the call ends
JsonDone ==
    /\ pc = "json"
    /\ \E b \in Bodies :
        /\ body' = Some(b)
        /\ Finish(get_ip_address_json(b, proxy_ip, log))
        /\ session' = async_with_exit(IF b.kind = "object" THEN "return"
                                      ELSE "raise")
    /\ UNCHANGED <<op, assignVars, maskVars, loopVars, cancelVars, HAS_AIOHTTP_SOCKS, account, given, proxy,
                   proxy_ip, strategy, attempts, backoff, attempt, last_exc,
                   resp, gets, waits>>

\* The task is cancelled while suspended: CancelledError is raised at
\* "await session.get" (inside the try of the fetch), at "await
\* asyncio.sleep" (inside the except block of the fetch, whose handler is
\* no longer in force) or at "await resp.json()" (inside "async with")
Cancel ==
    /\ pc \in {"get", "sleep", "json"}
    /\ cancelled = ""
    /\ cancelled' = pc
    /\ IF pc = "get"
       THEN get_raises(CancelledError,
                       Append(log, LogRec("warning", "attempt_failed",
                                          StrOf(attempt), CancelledError)))
       ELSE IF pc = "sleep"
       THEN /\ fetch_raise(CancelledError, log)
            /\ UNCHANGED <<last_exc, waits>>
       ELSE /\ session' = async_with_exit("raise")
            /\ Finish(get_ip_address_except(CancelledError, proxy_ip, log))
            /\ UNCHANGED <<last_exc, waits>>
    /\ UNCHANGED <<op, assignVars, maskVars, loopVars, HAS_AIOHTTP_SOCKS, account, given, proxy,
                   proxy_ip, strategy, attempts, backoff, attempt, resp, body,
                   gets>>

\* A call of get_ip_address, of resolve_ip_for_account or of the fetch that
\* may be cancelled
InitCancel == Init \/ InitFetch

(***************************************************************************)
(* Several resolutions on one event loop.  A coroutine runs from one await *)
(* to the next; the variables above are the locals of the task that runs,  *)
(* and the locals of the suspended tasks are kept in frames.  The module   *)
(* flag and the logging sink are the only things the tasks share.          *)
(***************************************************************************)
MaxResolutions == 2

\* The locals of the running call of resolve_ip_for_account
Frame ==
    [account |-> account, given |-> given, proxy |-> proxy,
     proxy_ip |-> proxy_ip, strategy |-> strategy, session |-> session,
     attempts |-> attempts, backoff |-> backoff, attempt |-> attempt,
     last_exc |-> last_exc, resp |-> resp, body |-> body, pc |-> pc,
     gets |-> gets, waits |-> waits, outcome |-> outcome,
     retval |-> retval, exc |-> exc]

\* The frame of a call of resolve_ip_for_account(a) that has not run yet
NewFrame(a) ==
    [account |-> a, given |-> None, proxy |-> None,
     proxy_ip |-> <<>>, strategy |-> NoStrategy, session |-> "none",
     attempts |-> 0, backoff |-> 0, attempt |-> 0,
     last_exc |-> "", resp |-> None, body |-> None, pc |-> "start",
     gets |-> <<>>, waits |-> <<>>, outcome |-> "pending",
     retval |-> <<>>, exc |-> ""]

\* The entry of frames that stands for the task that runs
Running == [pc |-> "running"]

\* A faulty variant: proxy_ip is a module-level name, not a local
resumed_proxy_ip_global(f) == proxy_ip

\* proxy_ip is a local of get_ip_address: a resumed task finds its own
resumed_proxy_ip(f) == f.proxy_ip

\* The loop resumes the task whose frame is f
Resume(f) ==
    /\ account' = f.account
    /\ given' = f.given
    /\ proxy' = f.proxy
    /\ proxy_ip' = resumed_proxy_ip(f)
    /\ strategy' = f.strategy
    /\ session' = f.session
    /\ attempts' = f.attempts
    /\ backoff' = f.backoff
    /\ attempt' = f.attempt
    /\ last_exc' = f.last_exc
    /\ resp' = f.resp
    /\ body' = f.body
    /\ pc' = f.pc
    /\ gets' = f.gets
    /\ waits' = f.waits
    /\ outcome' = f.outcome
    /\ retval' = f.retval
    /\ exc' = f.exc

\* The accounts of the resolutions that run together: no proxy, a valid
\* HTTP proxy, a string without port, a port that is no number, a SOCKS proxy
GatherProxies ==
    { <<"h","t","t","p",":","/","/","u","s","e","r",":","p","w","@","h","1",":","8","0">>,
      <<"h","t","t","p",":","/","/","h","1">>,
      <<"h","t","t","p",":","/","/","h","1",":","x","1">>,
      <<"s","o","c","k","s","5",":","/","/","H","2",":","8","0">> }
GatherAccounts ==
    { [kind |-> "None", proxy |-> <<>>] }
    \cup { [kind |-> "str", proxy |-> s] : s \in GatherProxies }

\* asyncio.gather over resolve_ip_for_account(a) for each a: task 1 is the
\* first to run, the others wait in frames
InitGather ==
    /\ IdleAssign
    /\ IdleMask
    /\ NotCalled
    /\ op = "resolve_ip_for_account"
    /\ HAS_AIOHTTP_SOCKS \in BOOLEAN
    /\ session = "none"
    /\ given = None
    /\ proxy = None
    /\ strategy = NoStrategy
    /\ attempts = 0
    /\ backoff = 0
    /\ account \in GatherAccounts
    /\ cancelled = ""
    /\ running = 1
    /\ \E acc \in [2..MaxResolutions -> GatherAccounts] :
        frames = [i \in 1..MaxResolutions |->
                     IF i = 1 THEN Running ELSE NewFrame(acc[i])]

\* The running task is suspended at an await (or has ended) and the loop
\* resumes task i
Switch(i) ==
    /\ running # 0
    /\ i # running
    /\ running' = i
    /\ frames' = [frames EXCEPT ![running] = Frame, ![i] = Running]
    /\ Resume(frames[i])
    /\ UNCHANGED <<op, assignVars, maskVars, cancelVars, HAS_AIOHTTP_SOCKS, log>>

Next ==
    \/ CallGetIpAddress
    \/ CallResolve
    \/ GetResponds
    \/ GetFails
    \/ SleepDone
    \/ JsonDone
NextFetch ==
    \/ CallFetch
    \/ GetResponds
    \/ GetFails
    \/ SleepDone

Spec == Init /\ [][Next]_vars
NextGather ==
    \/ CallResolve
    \/ GetResponds
    \/ GetFails
    \/ SleepDone
    \/ JsonDone
    \/ \E i \in DOMAIN frames : Switch(i)

NextCancel ==
    \/ Next
    \/ CallFetch
    \/ Cancel

SpecFetch == InitFetch /\ [][NextFetch]_vars
SpecCancel == InitCancel /\ [][NextCancel]_vars
SpecGather == InitGather /\ [][NextGather]_vars
\* Every await of the fetch ends: session.get is answered or raises (its
\* timeout at the latest) and asyncio.sleep returns
SpecFetchFair == SpecFetch /\ WF_vars(NextFetch)
SpecMask == InitMask /\ [][MaskProxy]_vars
SpecAssign == InitAssign /\ [][AssignProxies]_vars

(***************************************************************************)
(* Properties of assign_proxies, checked under SpecAssign.                 *)
(***************************************************************************)
ProxyList == IF IsNone(proxies) THEN <<>> ELSE Get(proxies)
Shorter == Min(Len(tokens), Len(ProxyList))

\* C1: assign_proxies returns exactly as many pairs as there are tokens;
\* pair i below min(N, M) is (tokens[i], proxies[i]) and every later pair is
\* (tokens[i], None), so no token list gives pairs beyond its length and an
\* empty or missing proxy list pairs every token with None.
C1_AssignPositional ==
    ~IsNone(assigned) =>
        /\ Len(Get(assigned)) = Len(tokens)
        /\ \A i \in 1..Len(tokens) :
            Get(assigned)[i] =
                IF i <= Shorter THEN <<tokens[i], Some(ProxyList[i])>>
                ELSE <<tokens[i], None>>
        /\ (tokens = <<>> => Get(assigned) = <<>>)
        /\ (ProxyList = <<>> =>
                \A i \in 1..Len(Get(assigned)) : Get(assigned)[i][2] = None)

\* Some tokens got a proxy and some got none
C1_Witness ==
    /\ ~IsNone(assigned)
    /\ Len(tokens) = 3
    /\ Len(ProxyList) = 2
    /\ Get(assigned)[2][2] # None
    /\ Get(assigned)[3][2] = None

\* How often the value v is carried as a proxy by the pairs of out
TimesCarried(out, v) == Cardinality({i \in DOMAIN out : out[i][2] = Some(v)})
\* How often the value v stands among the first k proxies
TimesListed(k, v) == Cardinality({j \in 1..k : ProxyList[j] = v})

\* C2: the tokens of the pairs are the input tokens, each once and in input
\* order; no proxy is carried more often than it is listed (no reuse, no
\* wraparound), and what is carried is what the first min(N, M) positions
\* hold, so the proxies at positions N..M-1 are carried by no pair.
C2_AssignOnce ==
    ~IsNone(assigned) =>
        /\ [i \in DOMAIN Get(assigned) |-> Get(assigned)[i][1]] = tokens
        /\ \A v \in ProxyValues :
            /\ TimesCarried(Get(assigned), v) <= TimesListed(Len(ProxyList), v)
            /\ TimesCarried(Get(assigned), v) = TimesListed(Shorter, v)
        /\ SelectSeq([i \in DOMAIN Get(assigned) |-> Get(assigned)[i][2]],
                     LAMBDA o : o # None)
           = [i \in 1..Shorter |-> Some(ProxyList[i])]

\* More proxies than tokens: the surplus proxy "p2" is carried by no pair
C2_Witness ==
    /\ ~IsNone(assigned)
    /\ tokens = <<"t1", "t2">>
    /\ ProxyList = <<"p1", "p1", "p2">>
    /\ TimesCarried(Get(assigned), "p2") = 0

(***************************************************************************)
(* Properties of a resolution, checked under Spec.                         *)
(***************************************************************************)
\* The argument of get_ip_address as the cleaning block sees it
GivenText == IF Truthy(given) THEN Strip(Get(given)) ELSE <<>>
GivenParsed == urlparse(GivenText)
GivenVerdict == IF Truthy(given) THEN validate(GivenParsed) ELSE "none"
GivenValidSocks == GivenVerdict = "valid" /\ is_socks(GivenParsed)

\* The attempts of the fetch that raised, and whether the handler of
\* get_ip_address was reached
Failures == Len(SelectSeq(log, LAMBDA r : r.msg = "attempt_failed"))
Handled == \E i \in DOMAIN log : log[i].msg = "request_failed"

\* C3: no fault leaves a resolution: whatever the proxy is and however the
\* GETs and the reading of the body end, the call ends by returning a value.
C3_NoFaultEscapes ==
    /\ outcome # "raised"
    /\ exc = ""
    /\ (pc = "done" => outcome = "returned")

\* A malformed port made urlparse's port raise ValueError, and the call
\* returned all the same
C3_Witness ==
    /\ op = "get_ip_address"
    /\ pc = "done"
    /\ outcome = "returned"
    /\ GivenVerdict = "raises"
    /\ \E i \in DOMAIN log : log[i].exc = "ValueError"

\* C4: a valid SOCKS proxy without SOCKS support gives "Unknown" and no GET.
C4_SocksUnavailableUnknown ==
    (pc = "done" /\ GivenValidSocks /\ ~HAS_AIOHTTP_SOCKS) =>
        /\ retval = Unknown
        /\ gets = <<>>

\* C5: when the fetch ran out of attempts, or anything unexpected happened
\* after the proxy was accepted, the value returned is "Unknown"; a value
\* other than "Unknown" that a resolution returns after fetching is the
\* address the endpoint reported.
C5_FailureIsUnknown ==
    /\ (pc = "done" /\ Handled) => retval = Unknown
    /\ (pc = "done" /\ gets # <<>> /\ outcome = "returned" /\ retval # Unknown) =>
          /\ ~IsNone(resp)
          /\ Get(resp).status = 200
          /\ ~IsNone(body)
          /\ Get(body).ip = Some(retval)

\* C6: a proxy string that is no valid record makes the resolution run the
\* fetch with the Direct strategy.
C6_MalformedGoesDirect ==
    (pc # "start" /\ Truthy(given) /\ GivenVerdict # "valid") =>
        /\ strategy = Direct
        /\ Len(gets) >= 1
        /\ \A i \in DOMAIN gets : gets[i] = Direct

C9_BodyDecides ==
    (pc = "done" /\ ~IsNone(body)) =>
        /\ outcome = "returned"
        /\ retval = IF IsNone(Get(body).ip) THEN Unknown ELSE Get(Get(body).ip)

MaskParsed == urlparse(maskIn)

\* C10 as stated: every input that does not parse to a record (no scheme,
\* no host, no port) is shown as "masked-proxy".
C10_MaskPlaceholder ==
    (~IsNone(maskOut) /\ validate(MaskParsed) # "valid") =>
        Get(maskOut) = S_masked_proxy

\* C10, amended: "masked-proxy" is the output exactly when parsing raises
\* (a port that is not a number in 0..65535, a lone "[" in the netloc);
\* otherwise the output is "<host>:<port>", after "<first character of the
\* username>***@" when the username is not empty, where a missing host
\* reads "unknown" and a missing port or port 0 reads ""; the password is
\* no part of the output.
C10_MaskFormat ==
    ~IsNone(maskOut) =>
        /\ (MaskParsed.raises \/ MaskParsed.port.raises) =>
              Get(maskOut) = S_masked_proxy
        /\ ~(MaskParsed.raises \/ MaskParsed.port.raises) =>
              Get(maskOut) =
                (IF Truthy(MaskParsed.username)
                 THEN <<Get(MaskParsed.username)[1]>> \o <<"*","*","*","@">>
                 ELSE <<>>)
                \o (IF IsNone(MaskParsed.hostname) THEN S_unknown
                    ELSE Get(MaskParsed.hostname))
                \o <<":">>
                \o (IF IsNone(MaskParsed.port.value)
                       \/ MaskParsed.port.value = Some(0)
                    THEN <<>> ELSE StrOf(Get(MaskParsed.port.value)))
        /\ PasswordOf(maskIn) # <<>> =>
              ~Contains(Get(maskOut), PasswordOf(maskIn))

\* A proxy with a password and no port is shown with its host and an empty
\* port, not as "masked-proxy"
C10_Witness ==
    /\ ~IsNone(maskOut)
    /\ validate(MaskParsed) = "invalid"
    /\ PasswordOf(maskIn) # <<>>
    /\ Get(maskOut) = <<"u","*","*","*","@","h","1",":">>

(***************************************************************************)
(* Properties of resolutions that run together, checked under SpecGather.  *)
(***************************************************************************)
\* The locals of task i, running or suspended
TaskFrame(i) == IF i = running THEN Frame ELSE frames[i]
\* The proxy that resolve_ip_for_account hands to get_ip_address for a
AccountArg(a) == IF account_routes(a) THEN Some(a.proxy) ELSE None
ArgText(arg) == IF Truthy(arg) THEN Strip(Get(arg)) ELSE <<>>
ArgVerdict(arg) == IF Truthy(arg) THEN validate(urlparse(ArgText(arg))) ELSE "none"
ArgProxyIp(arg) ==
    IF ArgVerdict(arg) = "valid" THEN accepted_proxy_ip(urlparse(ArgText(arg)))
    ELSE Unknown
ArgStrategy(arg) ==
    select_strategy(ArgVerdict(arg), ArgText(arg), urlparse(ArgText(arg)))

\* For each account that runs: what the cleaning block of a lone
\* get_ip_address makes of its proxy
AloneStart ==
    [a \in GatherAccounts |->
        [verdict |-> ArgVerdict(AccountArg(a)),
         proxy_ip |-> ArgProxyIp(AccountArg(a)),
         strategy |-> ArgStrategy(AccountArg(a))]]

\* What resolve_ip_for_account returns when it runs alone from the start st
\* and meets the network outcomes that the frame f has met: whether a GET
\* was answered, with which status, and what the body was
AloneValue(f, st) ==
    IF st.verdict = "raises"
    THEN get_ip_address_except("ValueError", st.proxy_ip, <<>>).retval
    ELSE IF st.strategy.kind = "SocksTunnel" /\ ~HAS_AIOHTTP_SOCKS
    THEN socks_unavailable_value(st.proxy_ip)
    ELSE IF IsNone(f.resp)
    THEN get_ip_address_except(f.last_exc, st.proxy_ip, <<>>).retval
    ELSE IF ~status_ok(Get(f.resp).status)
    THEN get_ip_address_status(Get(f.resp).status, <<>>).retval
    ELSE get_ip_address_json(Get(f.body), st.proxy_ip, <<>>).retval
\* The GETs and waits of a lone resolution that made n attempts
AloneGets(n, strat) == [j \in 1..n |-> strat]
AloneWaits(n) == [j \in 1..(n - 1) |-> fetch_delay(DefaultBackoff, j)]

TaskAlone(f, st) ==
    /\ f.outcome = "returned"
    /\ f.exc = ""
    /\ f.retval = AloneValue(f, st)
    /\ f.gets = AloneGets(f.attempt, st.strategy)
    /\ f.waits = AloneWaits(f.attempt)

\* C11: resolutions that interleave at their awaits each return one result,
\* the one the resolution gives alone with its proxy and its own network
\* outcomes, after the GETs and waits it makes alone; a task that has not
\* ended has returned nothing and is suspended at an await of its own (its
\* start, its GET, its wait, its body), never on another task.
C11_TasksIndependent ==
    /\ \A i \in DOMAIN frames :
        TaskFrame(i).pc = "done" =>
            TaskAlone(TaskFrame(i), AloneStart[TaskFrame(i).account])
    /\ \A i \in DOMAIN frames :
        TaskFrame(i).pc # "done" =>
            /\ TaskFrame(i).pc \in {"start", "get", "sleep", "json"}
            /\ TaskFrame(i).outcome = "pending"

\* Two resolutions ended: one had a port that is no number and returned
\* "Unknown" after the other's first GET had failed; the other then got its
\* address through its proxy at the second attempt
C11_Witness ==
    /\ \E i, j \in DOMAIN frames :
        /\ i # j
        /\ TaskFrame(i).pc = "done"
        /\ AloneStart[TaskFrame(i).account].verdict = "raises"
        /\ TaskFrame(i).retval = Unknown
        /\ TaskFrame(j).pc = "done"
        /\ AloneStart[TaskFrame(j).account].verdict = "valid"
        /\ Len(TaskFrame(j).gets) = 2
        /\ TaskFrame(j).retval \in EndpointIps
    /\ Len(log) = 2
    /\ log[1].msg = "attempt_failed"
    /\ log[2].msg = "request_failed"

(***************************************************************************)
(* Termination of _fetch_with_retries, checked under SpecFetchFair.        *)
(***************************************************************************)
\* The fetch never issues more GETs than attempts, a wait only between two
\* attempts; when it raises, every attempt failed, no wait followed the last
\* one and the error raised is the one of the last attempt
FetchBounded ==
    /\ Len(gets) <= attempts
    /\ Len(waits) < attempts
    /\ Len(waits) <= Len(gets)
    /\ (pc = "done" /\ outcome = "raised") =>
          /\ Len(gets) = attempts
          /\ Failures = attempts
          /\ Len(waits) = attempts - 1
          /\ log[attempts].text = StrOf(attempts)
          /\ exc = log[attempts].exc
          /\ exc = last_exc

\* C12: a fetch with attempts = A >= 1 ends, whatever the outcomes of its
\* attempts, after at most A GETs; when all A attempts fail there is no wait
\* after the A-th and the error raised is that of the A-th attempt.
C12_FetchTerminates == [] FetchBounded /\ <>(pc = "done")

\* Three attempts failed, the first with ClientError and the last with
\* TimeoutError: TimeoutError is raised after two waits
C12_Witness ==
    /\ op = "_fetch_with_retries"
    /\ pc = "done"
    /\ outcome = "raised"
    /\ attempts = 3
    /\ log[1].exc = "ClientError"
    /\ log[3].exc = "TimeoutError"
    /\ exc = "TimeoutError"
    /\ Len(waits) = 2

(***************************************************************************)
(* Properties of the requests of a resolution, checked under Spec.         *)
(***************************************************************************)
S_https == <<"h","t","t","p","s">>
GivenValidHttp ==
    /\ GivenVerdict = "valid"
    /\ GivenParsed.scheme \in {S_http, S_https}
GivenHasCredentials ==
    Truthy(GivenParsed.username) \/ Truthy(GivenParsed.password)

\* C13: every GET of a resolution with a valid http or https proxy names the
\* proxy as scheme://host:port, without "@", username or password, and
\* carries basic-auth credentials exactly when the record has a username or
\* a password, a missing one of the two being the empty string.
C13_ForwardEndpointBare ==
    (GivenValidHttp /\ pc # "start") =>
        /\ Len(gets) >= 1
        /\ \A i \in DOMAIN gets :
            /\ gets[i].kind = "ForwardProxy"
            /\ gets[i].endpoint =
                   GivenParsed.scheme \o <<":","/","/">>
                   \o Get(GivenParsed.hostname) \o <<":">>
                   \o StrOf(Get(GivenParsed.port.value))
            /\ ~Contains(gets[i].endpoint, <<"@">>)
            /\ Truthy(GivenParsed.username) =>
                   ~Contains(gets[i].endpoint, Get(GivenParsed.username))
            /\ Truthy(GivenParsed.password) =>
                   ~Contains(gets[i].endpoint, Get(GivenParsed.password))
            /\ IsNone(gets[i].auth) <=> ~GivenHasCredentials
            /\ GivenHasCredentials =>
                   gets[i].auth = Some(<<OrEmpty(GivenParsed.username),
                                         OrEmpty(GivenParsed.password)>>)

\* A proxy with a password and an empty username: three GETs through
\* https://h1:80, each with the credentials ("", "pw")
C13_Witness ==
    /\ pc = "done"
    /\ given = Some(<<"h","t","t","p","s",":","/","/",":","p","w","@","h","1",":","0","8","0">>)
    /\ Len(gets) = 3
    /\ gets[3].endpoint = <<"h","t","t","p","s",":","/","/","h","1",":","8","0">>
    /\ gets[3].auth = Some(<< <<>>, <<"p","w">> >>)

\* C14: no record written to the log during a resolution contains the
\* password of the proxy, the warning about a rejected proxy included.
C14_LogHidesPassword ==
    Truthy(GivenParsed.password) =>
        \A i \in DOMAIN log : ~Contains(log[i].text, Get(GivenParsed.password))

(***************************************************************************)
(* Properties of a cancelled call, checked under SpecCancel.               *)
(***************************************************************************)
\* C15: a call cancelled while suspended in a GET or in a wait ends at once
\* by raising CancelledError, out of the fetch and out of the resolution:
\* the cancelled GET is not logged as a failed attempt, nothing is logged by
\* the handlers, no GET or wait follows, and no value is returned.
C15_CancelPropagates ==
    cancelled \in {"get", "sleep"} =>
        /\ pc = "done"
        /\ outcome = "raised"
        /\ exc = CancelledError
        /\ retval = <<>>
        /\ \A i \in DOMAIN log : log[i].exc # CancelledError
        /\ ~Handled
        /\ last_exc # CancelledError
        /\ Len(waits) = Failures
        /\ Len(gets) = IF cancelled = "get" THEN Failures + 1 ELSE Failures
        /\ resp = None

\* A resolution through resolve_ip_for_account was cancelled in its second
\* GET, after one failed attempt and one wait
C15_Witness ==
    /\ op = "resolve_ip_for_account"
    /\ cancelled = "get"
    /\ pc = "done"
    /\ exc = CancelledError
    /\ Len(gets) = 2
    /\ waits = <<1>>
    /\ Failures = 1

S_socks4 == <<"s","o","c","k","s","4">>
S_socks5 == <<"s","o","c","k","s","5">>
\* The scheme of the valid record given, lower-cased; <<>> if there is none
GivenScheme == IF GivenVerdict = "valid" THEN Lower(GivenParsed.scheme) ELSE <<>>

\* C17: the scheme of the valid record alone selects the strategy of the
\* GETs: Direct only without a proxy or with an invalid record, SocksTunnel
\* on the whole URL exactly for socks4 and socks5, ForwardProxy exactly for
\* http and https, whatever the case of the scheme; a valid record with
\* another scheme is never used as a forward proxy.
C17_SchemeSelectsStrategy ==
    gets # <<>> =>
        /\ strategy.kind = "Direct" =>
              (~Truthy(given) \/ GivenVerdict = "invalid")
        /\ strategy.kind = "SocksTunnel" <=> GivenScheme \in {S_socks4, S_socks5}
        /\ strategy.kind = "SocksTunnel" => strategy.endpoint = GivenText
        /\ strategy.kind = "ForwardProxy" <=> GivenScheme \in {S_http, S_https}
        /\ \A i \in DOMAIN gets : gets[i] = strategy

(***************************************************************************)
(* Properties of resolve_ip_for_account, checked under Spec.               *)
(***************************************************************************)
\* The account has an attribute proxy that is a string and begins, in lower
\* case, with "http" or "socks"
ProxyFieldRoutes ==
    /\ account.kind = "str"
    /\ \/ Len(account.proxy) >= 4 /\ SubSeq(account.proxy, 1, 4) = <<"h","t","t","p">>
       \/ Len(account.proxy) >= 5 /\ SubSeq(account.proxy, 1, 5) = <<"s","o","c","k","s">>

\* C18: resolve_ip_for_account hands the account's proxy to get_ip_address
\* exactly when the proxy field is a string beginning with lower-case
\* "http" or "socks"; for every other account it calls get_ip_address
\* without a proxy, so that every GET is Direct and no warning about a
\* rejected proxy is logged; the index field is read only where "Failed to
\* resolve" is logged, and no resolution gets there, since get_ip_address
\* lets no Exception out: the index decides nothing.
C18_AccountRouting ==
    (op = "resolve_ip_for_account" /\ pc # "start") =>
        /\ given = Some(account.proxy) <=> ProxyFieldRoutes
        /\ ~ProxyFieldRoutes =>
              /\ given = None
              /\ proxy = None
              /\ strategy = Direct
              /\ Len(gets) >= 1
              /\ \A i \in DOMAIN gets : gets[i] = Direct
              /\ \A i \in DOMAIN log : log[i].msg # "invalid_proxy"
        /\ \A i \in DOMAIN log : log[i].msg # "failed_to_resolve"

\* An account whose proxy is a valid SOCKS URL in upper case was resolved
\* with a Direct GET and got the address the endpoint reported
C18_Witness ==
    /\ op = "resolve_ip_for_account"
    /\ pc = "done"
    /\ account.kind = "str"
    /\ account.proxy = <<"S","O","C","K","S","5",":","/","/","h","1",":","8","0">>
    /\ gets = <<Direct>>
    /\ retval \in EndpointIps

====
